---- MODULE Spec2Model ----
(***************************************************************************)
(* A model of the subprocess code executor of ClaraVerse                   *)
(* (backend/e2b-service/main_simple.py): the three execute endpoints, the  *)
(* shared execute_python_code pipeline, the work directory they share and  *)
(* the asyncio event loop that schedules the handlers; and, each with a    *)
(* specification of its own, of the model cache and the /transcribe        *)
(* handler of backend/faster-whisper-service/server.py and of the custom   *)
(* voice endpoints of backend/pocket-tts-service/server.py.                *)
(*                                                                         *)
(* Text is a sequence of chunks [k, n]: a run of n characters of kind k.   *)
(*   "a"   n ordinary one-byte characters (no newline, no marker, no       *)
(*         "Error:")                                                       *)
(*   "u"   n characters that take two bytes each in UTF-8                  *)
(*   "nl"  one newline                                                     *)
(*   "mk"  the 12 characters [PLOT_SAVED]                                  *)
(*   "err" the 6 characters Error:                                         *)
(* so that the cap of 100 * 1024 keeps its value.                          *)
(***************************************************************************)
EXTENDS Integers, Sequences, FiniteSets, TLC

\* ------------------------------------------------------------ bounds
NumReq == 2
NumIds == 2
MaxUploads == 2
MaxShow == 1
MaxFaults == 1
MaxTime == 1

\* -------------------------------------------------- program constants
EXECUTION_TIMEOUT == 30
MAX_OUTPUT_SIZE == 100 * 1024
MarkerLen == 12
ErrorTagLen == 6

Req == 1..NumReq
Ids == 1..NumIds

\* ---------------------------------------------------------------- text
Ch(k, n) == [k |-> k, n |-> n]
NL == Ch("nl", 1)
MK == Ch("mk", 1)
ERR == Ch("err", 1)

\* len(chunk) in characters
ChunkChars(c) ==
    CASE c.k = "mk" -> MarkerLen
      [] c.k = "err" -> ErrorTagLen
      [] c.k = "nl" -> 1
      [] OTHER -> c.n

\* len(chunk.encode("utf-8"))
ChunkBytes(c) == IF c.k = "u" THEN 2 * c.n ELSE ChunkChars(c)

RECURSIVE CharLen(_)
CharLen(t) == IF t = <<>> THEN 0 ELSE ChunkChars(Head(t)) + CharLen(Tail(t))

RECURSIVE ByteLen(_)
ByteLen(t) == IF t = <<>> THEN 0 ELSE ChunkBytes(Head(t)) + ByteLen(Tail(t))

\* The first n characters of one chunk: a cut marker or a cut "Error:" is
\* ordinary text.
CutChunk(c, n) ==
    IF c.k = "u" THEN Ch("u", n) ELSE Ch("a", n)

\* s[:cap] of a Python str: the first cap characters.
RECURSIVE Truncate(_, _)
Truncate(t, cap) ==
    IF t = <<>> \/ cap <= 0 THEN <<>>
    ELSE IF ChunkChars(Head(t)) <= cap
         THEN <<Head(t)>> \o Truncate(Tail(t), cap - ChunkChars(Head(t)))
         ELSE <<CutChunk(Head(t), cap)>>

\* proc.stdout[:MAX_OUTPUT_SIZE] if proc.stdout else ""
CapOutput(t) == IF t # <<>> THEN Truncate(t, MAX_OUTPUT_SIZE) ELSE <<>>

\* s.split("\n"): the lines between the newlines; "" gives [""].
RECURSIVE SplitLines(_)
SplitLines(t) ==
    IF t = <<>> THEN << <<>> >>
    ELSE LET rest == SplitLines(Tail(t))
         IN IF Head(t).k = "nl"
            THEN << <<>> >> \o rest
            ELSE << <<Head(t)>> \o Head(rest) >> \o Tail(rest)

\* "\n".join(lines)
RECURSIVE JoinLines(_)
JoinLines(ls) ==
    IF ls = <<>> THEN <<>>
    ELSE IF Len(ls) = 1 THEN Head(ls)
    ELSE Head(ls) \o <<NL>> \o JoinLines(Tail(ls))

\* line.startswith("[PLOT_SAVED]")
StartsWithMarker(line) == line # <<>> /\ Head(line).k = "mk"

\* "Error:" in s
ContainsError(t) == \E i \in 1..Len(t) : t[i].k = "err"

NotMarkerLine(line) == ~StartsWithMarker(line)

\* A stripping that drops only the first marker line.
RECURSIVE DropFirstMarkerLine(_)
DropFirstMarkerLine(ls) ==
    IF ls = <<>> THEN <<>>
    ELSE IF StartsWithMarker(Head(ls)) THEN Tail(ls)
    ELSE <<Head(ls)>> \o DropFirstMarkerLine(Tail(ls))

StripMarkersFirstOnly(t) ==
    IF t # <<>> THEN JoinLines(DropFirstMarkerLine(SplitLines(t))) ELSE t

\* A stripping that takes the lines as str.splitlines() gives them: without
\* the empty piece after a final newline.
StripMarkersSplitlines(t) ==
    IF t # <<>>
    THEN LET ls == SplitLines(t)
             body == IF ls[Len(ls)] = <<>> THEN SubSeq(ls, 1, Len(ls) - 1) ELSE ls
         IN JoinLines(SelectSeq(body, NotMarkerLine))
    ELSE t

\* Remove [PLOT_SAVED] messages from stdout
StripMarkers(t) ==
    IF t # <<>> THEN JoinLines(SelectSeq(SplitLines(t), NotMarkerLine)) ELSE t


\* ------------------------------------------------------- inputs drawn
\* What a child may write to its stdout: nothing, one line, two marker
\* lines around a line, output whose marker line ends exactly at the cap,
\* output whose marker line is cut by the cap, and two-byte characters up
\* to the cap and one past it.
StdoutSamples ==
    { <<>>,
      <<Ch("a", 5), NL>>,
      <<MK, Ch("a", 9), NL, Ch("a", 5), NL, MK, Ch("a", 9), NL>>,
      <<Ch("a", MAX_OUTPUT_SIZE - MarkerLen - 1), NL, MK, Ch("a", 9), NL>>,
      <<Ch("a", MAX_OUTPUT_SIZE - 6), NL, MK, Ch("a", 9), NL>>,
      <<Ch("u", MAX_OUTPUT_SIZE), Ch("a", 1)>> }

\* What a child may write to its stderr: nothing, a traceback ending in
\* "ValueError: boom", "Error: x" with no newline, a warning line, and
\* two-byte characters past the cap.
StderrSamples ==
    { <<>>,
      <<Ch("a", 9), NL, Ch("a", 5), ERR, Ch("a", 5), NL>>,
      <<ERR, Ch("a", 2)>>,
      <<Ch("a", 4), NL>>,
      <<Ch("u", MAX_OUTPUT_SIZE), Ch("a", 1)>> }

\* pip's stdout + stderr.
InstallLogs == { <<>>, <<Ch("a", 20), NL>> }

\* Optional[int]: None or an integer.
NoneT == [some |-> FALSE, v |-> 0]
SomeT(n) == [some |-> TRUE, v |-> n]
TimeoutValues == {-1, 0, 1, EXECUTION_TIMEOUT + 1}
TimeoutInputs == {NoneT} \cup {SomeT(n) : n \in TimeoutValues}

\* A file name: its stem, the number in plot_<k>, and its suffix.
Name(stem, k, ext) == [stem |-> stem, k |-> k, ext |-> ext]
ScriptName == Name("script", 0, ".py")
PlotName(k) == Name("plot_", k, ".png")
\* file.filename of an upload, as the client sent it: "data.csv" and
\* "/tmp/data.csv".
UploadNames == { Name("data", 0, ".csv"), Name("/tmp/data", 0, ".csv") }
\* Files the caller's code may write into its working directory: an image,
\* a table, a compiled module and an image whose suffix is in capitals.
DirectNames ==
    { Name("fig", 0, ".png"), Name("out", 0, ".csv"), Name("mod", 0, ".pyc"),
      Name("FIG", 0, ".PNG") }
\* The bytes written into a file of that name: the model knows a file's
\* content by its length, so files of different names differ in length.
FileSize(name) ==
    CASE name.ext = ".csv" -> 4
      [] name.ext = ".pyc" -> 5
      [] name.ext = ".PNG" -> 3
      [] name.stem = "plot_" -> 7 + name.k
      [] name.stem = "script" -> 6
      [] OTHER -> 7

\* A child that writes "hello\n" and nothing else.
Hello == <<Ch("a", 5), NL>>

\* What one child does: its stdout, its stderr, its calls of plt.show(),
\* the files it saves into its working directory, and whether it starts a
\* process of its own. Each of them varies with the others at rest.
ChildBehaviours ==
    [out : StdoutSamples, err : {<<>>}, nshow : {0}, direct : {{}}, spawns : {FALSE}]
    \cup [out : {Hello}, err : StderrSamples, nshow : {0}, direct : {{}}, spawns : {FALSE}]
    \cup [out : {Hello}, err : {<<>>}, nshow : 0..MaxShow, direct : {{}, DirectNames},
           spawns : {FALSE}]
    \cup [out : {Hello}, err : {<<>>}, nshow : {0}, direct : {{}}, spawns : {TRUE}]

\* The children tried under a request: all of them when the request leaves
\* the timeout alone (None, or above the ceiling where the form field has
\* no None), names no dependency and, in /execute-with-files, comes with
\* MaxUploads files; the one that prints hello under every other request.
ChildrenFor(ep, t, deps, uploads) ==
    IF /\ ~deps
       /\ t = (IF ep = "files" THEN SomeT(EXECUTION_TIMEOUT + 1) ELSE NoneT)
       /\ ep = "files" => uploads = MaxUploads
    THEN ChildBehaviours
    ELSE { [out |-> Hello, err |-> <<>>, nshow |-> 0, direct |-> {}, spawns |-> FALSE] }

Min(a, b) == IF a <= b THEN a ELSE b

\* What _patched_show prints at each call: "[PLOT_SAVED]" and the path of
\* the file it saved, on a line of its own (the path counts 38 characters).
RECURSIVE ShowLines(_)
ShowLines(n) == IF n = 0 THEN <<>> ELSE ShowLines(n - 1) \o <<MK, Ch("a", 38), NL>>

\* ------------------------------------------------------------- errors
Err(kind, text, n) == [kind |-> kind, text |-> text, n |-> n]
NoError == Err("None", <<>>, 0)

\* f"Execution timed out after {timeout} seconds", built from a constant
\* instead of the argument.
TimeoutErrorCeiling(timeout) == Err("Execution timed out after N seconds", <<>>, EXECUTION_TIMEOUT)

\* f"Execution timed out after {timeout} seconds"
TimeoutError(timeout) == Err("Execution timed out after N seconds", <<>>, timeout)

RECURSIVE Digits(_)
Digits(n) ==
    IF n < 0 THEN 1 + Digits(-n)
    ELSE IF n < 10 THEN 1 ELSE 1 + Digits(n \div 10)

\* f"TimeoutError: Code execution exceeded {timeout} second limit"
TimeoutStderr(timeout) == <<Ch("a", 7), ERR, Ch("a", 38 + Digits(timeout))>>

\* The error of a non-zero exit (lines 231-237): [raised, error].
\* stderr.split("\n")[-2] raises IndexError when stderr has no newline.
ErrorFromStderr(stderr) ==
    IF ContainsError(stderr)
    THEN LET lines == SplitLines(stderr)
         IN IF Len(lines) >= 2
            THEN [raised |-> FALSE, error |-> Err("stderr line", lines[Len(lines) - 1], 0)]
            ELSE [raised |-> TRUE, error |-> NoError]
    ELSE [raised |-> FALSE,
          error |-> IF stderr # <<>> THEN Err("stderr", stderr, 0)
                    ELSE Err("Execution failed with non-zero exit code", <<>>, 0)]

\* -------------------------------------------------------- filesystem
\* A directory is [path, sub]: WORK_DIR/<path...>[/plots]; a file adds
\* its name and its size in bytes.
DirNode(p, sub) == [path |-> p, sub |-> sub]
FileNode(p, sub, name, size) == [path |-> p, sub |-> sub, name |-> name, size |-> size]

IsPrefix(p, q) == Len(p) <= Len(q) /\ SubSeq(q, 1, Len(p)) = p

\* The directories mkdir(parents=True) makes sure of: p and its parents
\* below WORK_DIR.
WithParents(p) == { DirNode(SubSeq(p, 1, i), "") : i \in 1..Len(p) }

\* What is left of a set of nodes after shutil.rmtree(WORK_DIR/p).
AfterRmTree(nodes, p) == { x \in nodes : ~IsPrefix(p, x.path) }

\* A directory that is not under WORK_DIR (0 is no uuid); the model keeps
\* no files for it.
Outside == <<0>>

\* exec_dir / file.filename: pathlib joins the name as it is, and joining
\* an absolute path gives that path.
UploadTarget(d, name, size) ==
    IF name.stem = "/tmp/data"
    THEN FileNode(Outside, "", Name("data", name.k, name.ext), size)
    ELSE FileNode(d, "", name, size)

\* The loop over a listing whose first unreadable file ends it.
ReadableUntilFailure(q, bad) ==
    LET firstBad == { i \in 1..Len(q) : q[i] \in bad }
    IN IF firstBad = {} THEN q
       ELSE SubSeq(q, 1, (CHOOSE i \in firstBad : \A j \in firstBad : i <= j) - 1)

\* The files of a listing that the loop reads: open() or read() of a file
\* in bad raises inside the loop's try block, and the loop goes on.
Readable(q, bad) ==
    LET CanRead(f) == f \notin bad
    IN SelectSeq(q, CanRead)

\* Every order in which a directory listing may return a set of files.
RECURSIVE Orders(_)
Orders(S) ==
    IF S = {} THEN { <<>> }
    ELSE UNION { { <<x>> \o o : o \in Orders(S \ {x}) } : x \in S }

\* Path.glob("*.png")
MatchesPng(name) == name.ext = ".png"

\* file_path.suffix.lower()
LowerSuffix(name) ==
    CASE name.ext = ".PNG" -> ".png"
      [] name.ext = ".PYC" -> ".pyc"
      [] OTHER -> name.ext

\* base64.b64encode(data).decode("utf-8") of a file's bytes, which the
\* model knows by their number.
B64(size) == [b64 |-> size]


\* ------------------------------------------------- the pipeline's steps
\* timeout = min(request.timeout or EXECUTION_TIMEOUT, EXECUTION_TIMEOUT)
\* in /execute and /execute-advanced, min(timeout, EXECUTION_TIMEOUT) in
\* /execute-with-files. Python's "or" takes the default for None and for 0.
ClampTimeout(ep, t) ==
    IF ep = "files"
    THEN Min(t.v, EXECUTION_TIMEOUT)
    ELSE Min(IF t.some /\ t.v # 0 THEN t.v ELSE EXECUTION_TIMEOUT, EXECUTION_TIMEOUT)

\* result = {...} at the start of execute_python_code
InitResult ==
    [stdout |-> <<>>, stderr |-> <<>>, error |-> NoError, plots |-> <<>>,
     files |-> <<>>, install_output |-> <<>>]

\* The installer's result with the log dropped on a non-zero exit.
InstallResultNoLog(result, outcome, log) ==
    CASE outcome = "ok" -> [result EXCEPT !.install_output = log]
      [] outcome = "nonzero" ->
           [result EXCEPT !.error = Err("Failed to install dependencies: ", <<>>, 0)]
      [] OTHER -> [result EXCEPT !.error = Err("Dependency installation timed out", <<>>, 0)]

\* What the install step leaves in result: the log and, on a non-zero exit,
\* the error that quotes it; on TimeoutExpired a fixed error and no log.
InstallResult(result, outcome, log) ==
    CASE outcome = "ok" -> [result EXCEPT !.install_output = log]
      [] outcome = "nonzero" ->
           [result EXCEPT !.install_output = log,
                          !.error = Err("Failed to install dependencies: ", log, 0)]
      [] OTHER -> [result EXCEPT !.error = Err("Dependency installation timed out", <<>>, 0)]

\* An install step that falls through to the execution after a failure.
AfterInstallFallThrough(outcome) == "prepare"

\* An install step that goes on to the execution without the script.
AfterInstallToRun(outcome) == IF outcome = "ok" THEN "run" ELSE "finally"

\* Where the install step goes: on, or (return result) to the finally block.
AfterInstall(outcome) == IF outcome = "ok" THEN "prepare" ELSE "finally"

\* A run step that keeps what the child wrote when it times out.
RunResultKeepPartial(result, timeout, outcome, out, err) ==
    IF outcome = "timeout"
    THEN [raised |-> FALSE,
          result |-> [result EXCEPT !.stdout = CapOutput(out), !.stderr = CapOutput(err),
                                    !.error = TimeoutError(timeout)]]
    ELSE LET capped == [result EXCEPT !.stdout = CapOutput(out), !.stderr = CapOutput(err)]
             e == ErrorFromStderr(capped.stderr)
         IN IF outcome = "exit0" THEN [raised |-> FALSE, result |-> capped]
            ELSE [raised |-> e.raised, result |-> [capped EXCEPT !.error = e.error]]

\* What subprocess.run's outcome leaves in result (lines 219-241):
\* [raised, result]. On TimeoutExpired the captured output is not read.
RunResult(result, timeout, outcome, out, err) ==
    IF outcome = "timeout"
    THEN [raised |-> FALSE,
          result |-> [result EXCEPT !.error = TimeoutError(timeout),
                                    !.stderr = TimeoutStderr(timeout)]]
    ELSE LET capped == [result EXCEPT !.stdout = CapOutput(out), !.stderr = CapOutput(err)]
             e == ErrorFromStderr(capped.stderr)
         IN IF outcome = "exit0" THEN [raised |-> FALSE, result |-> capped]
            ELSE [raised |-> e.raised, result |-> [capped EXCEPT !.error = e.error]]

\* A run step after which a timed-out execution skips the collection.
AfterRunSkipOnTimeout(raised, outcome) ==
    IF raised \/ outcome = "timeout" THEN "finally" ELSE "collect"

\* Where the run step goes: both the normal return and the TimeoutExpired
\* branch fall through to the collection; an exception goes to finally.
AfterRun(raised, outcome) == IF raised THEN "finally" ELSE "collect"

\* A teardown whose failed removal leaves an OSError behind.
RmTreeFailureRaises(exc) == "OSError"

\* The exception pending after shutil.rmtree has failed: the one pending
\* before it (except Exception: logger.warning, and except: pass).
RmTreeFailure(exc) == exc

\* A test of the suffix as it is written.
CollectableNoCaseFold(name) == name # ScriptName /\ name.ext \notin {".png", ".pyc"}

\* file_path.name != "script.py" and
\* file_path.suffix.lower() not in [".png", ".pyc"]
Collectable(name) == name # ScriptName /\ LowerSuffix(name) \notin {".png", ".pyc"}

\* {"format": "png", "data": plot_data}
PlotOf(f) == [format |-> "png", data |-> B64(f.size)]

\* {"filename": ..., "data": ..., "size": len(file_data)}
FileOf(f) == [filename |-> f.name, data |-> B64(f.size), size |-> f.size]

\* The plots, and the files, of a listing, in its order.
PlotsOf(q) == [i \in 1..Len(q) |-> PlotOf(q[i])]
FilesOf(q) == [i \in 1..Len(q) |-> FileOf(q[i])]

\* A response whose success flag follows stderr instead of error.
MakeResponseByStderr(ep, result) ==
    [kind |-> "response", success |-> result.stderr = <<>>, stdout |-> result.stdout,
     stderr |-> result.stderr, error |-> result.error, plots |-> result.plots,
     files |-> IF ep = "advanced" THEN result.files ELSE <<>>,
     install_output |-> IF ep = "advanced" THEN result.install_output ELSE <<>>]

\* ExecuteResponse(...) / AdvancedExecuteResponse(...): files and
\* install_output are fields of the advanced response only (here empty in
\* the other two).
MakeResponse(ep, result) ==
    [kind |-> "response", success |-> result.error = NoError, stdout |-> result.stdout,
     stderr |-> result.stderr, error |-> result.error, plots |-> result.plots,
     files |-> IF ep = "advanced" THEN result.files ELSE <<>>,
     install_output |-> IF ep = "advanced" THEN result.install_output ELSE <<>>]

\* An exception that leaves the handler: FastAPI answers 500.
ServerError == [kind |-> "exception"]
NoResponse == [kind |-> "none"]

\* --------------------------------------------------------------- state
VARIABLES
    running,    \* the request whose handler holds the event loop, 0: none
    pc,         \* each request's position in its handler
    req,        \* each request's input
    loc,        \* each handler's locals; staged records the directories it wrote
                \* uploads into, install and ilog what pip did
    res,        \* execute_python_code's result dict
    child,      \* what the execution child did: how it ended, its output, the
                \* directory the caller's code ran in, the files it wrote and
                \* the processes it left running
    resp,       \* what the handler returned
    dirs,       \* the directories under WORK_DIR
    files,      \* the files under WORK_DIR
    created,    \* the directories each request's mkdir calls created
    faults,     \* the I/O faults the environment has injected so far
    stages      \* the stages each request went through, in order

vars == <<running, pc, req, loc, res, child, resp, dirs, files, created, faults, stages>>

NoReq == [ep |-> "none", timeout |-> NoneT, deps |-> FALSE, uploads |-> 0]
NoLoc == [outer |-> 0, id |-> 0, timeout |-> 0, staged |-> {}, exc |-> "",
          rmFailed |-> FALSE, install |-> "none", ilog |-> <<>>,
          found |-> {}, unread |-> {}]
NoChild == [outcome |-> "none", out |-> <<>>, err |-> <<>>, cwd |-> <<>>, wrote |-> {},
            alive |-> {}]

\* ------------------------------------- the speech services: their state
\* The repository's two other services, faster-whisper-service (speech to
\* text) and pocket-tts-service (text to speech), are processes of their
\* own; each of them has a specification of its own below, in which the
\* executor's variables stay as Init made them, as theirs do in Spec.
VARIABLES
    now,                 \* datetime.now() to the second, as both services read it
    model_instance,      \* faster-whisper: _model_instance, by the name of the
                         \* model that was loaded into it
    current_model_name,  \* faster-whisper: _current_model_name
    local,               \* the model names for which MODELS_DIR/<name> exists
    tpc,                 \* each /transcribe request's position in its handler
    treq,                \* its upload's file name, its model, the time stamp
                         \* it took and ffmpeg's exit code
    detached,            \* the file it holds open was unlinked by another request
    uploads,             \* the files in UPLOADS_DIR: path and whose audio is in it
    tresp,               \* the last response of each request slot
    sttFaults,           \* the faults injected into get_model so far
    voices,              \* pocket-tts: the files in CUSTOM_VOICES_DIR
    issued,              \* the ids /voices/upload returned, with the file each stored
    lastCall             \* what the last request to pocket-tts did

sttVars == <<now, model_instance, current_model_name, local, tpc, treq, detached,
             uploads, tresp, sttFaults>>
ttsVars == <<voices, issued, lastCall>>

\* AVAILABLE_MODELS, two of its twelve names.
AVAILABLE_MODELS == {"small", "base"}
\* The model field of a request: a name of the list or another one.
ModelInputs == AVAILABLE_MODELS \cup {"bogus"}
NoModel == "None"

NoTReq == [filename |-> <<>>, model |-> "", stamp |-> 0, rc |-> 0]
NoTResp == [status |-> 0, detail |-> "", heard |-> 0, model |-> NoModel]
NoLast == [op |-> "none", status |-> 0, id |-> <<>>, file |-> <<>>, stored |-> FALSE]

\* Both services as they start: nothing loaded, nothing uploaded.
SpeechInit ==
    /\ now = 0
    /\ model_instance = NoModel
    /\ current_model_name = NoModel
    /\ local = {}
    /\ tpc = [q \in Req |-> "idle"]
    /\ treq = [q \in Req |-> NoTReq]
    /\ detached = [q \in Req |-> FALSE]
    /\ uploads = {}
    /\ tresp = [q \in Req |-> NoTResp]
    /\ sttFaults = 0
    /\ voices = {}
    /\ issued = {}
    /\ lastCall = NoLast

Init ==
    /\ SpeechInit
    /\ running = 0
    /\ pc = [r \in Req |-> "idle"]
    /\ req = [r \in Req |-> NoReq]
    /\ loc = [r \in Req |-> NoLoc]
    /\ res = [r \in Req |-> InitResult]
    /\ child = [r \in Req |-> NoChild]
    /\ resp = [r \in Req |-> NoResponse]
    /\ dirs = {}
    /\ files = {}
    /\ created = [r \in Req |-> {}]
    /\ faults = 0
    /\ stages = [r \in Req |-> <<>>]

\* work_dir of execute_python_code: WORK_DIR, or the upload directory.
WorkDir(r) == IF req[r].ep = "files" THEN <<loc[r].outer>> ELSE <<>>
ExecDir(r) == WorkDir(r) \o <<loc[r].id>>

Stage(r, s) == stages' = [stages EXCEPT ![r] = Append(@, s)]

\* An operating-system call that works (ok) or fails with an OSError the
\* environment injects (disk full, permission, busy file).
SysCall(ok) ==
    /\ ~ok => faults < MaxFaults
    /\ faults' = IF ok THEN faults ELSE faults + 1


\* str(uuid.uuid4())[:8]: the values matter only by being equal or
\* different, so a new one is drawn as any value that names a directory on
\* disk or is held by a handler, or as the least value that does not.
UsedIds ==
    UNION { { d.path[i] : i \in 1..Len(d.path) } : d \in dirs }
    \cup { loc[r].outer : r \in Req } \cup { loc[r].id : r \in Req }
UuidChoices ==
    LET used == UsedIds \cap Ids
        fresh == Ids \ used
    IN used \cup { i \in fresh : \A j \in fresh : i <= j }

\* Where an exception that leaves execute_python_code goes: to the
\* finally block of execute_with_files, or out of the endpoint.
Propagate(r) == IF req[r].ep = "files" THEN "files_finally" ELSE "respond"

\* The os.chdir calls the child makes before the caller's code, in order:
\* the one create_wrapper_code writes (to the directory it was given,
\* exec_dir) and then, being the first line of the code that
\* /execute-with-files hands over, the one to the upload directory.
Chdirs(r) ==
    <<ExecDir(r)>> \o (IF req[r].ep = "files" THEN <<WorkDir(r)>> ELSE <<>>)

\* A child that stays where the wrapper's chdir put it.
CwdOfWrapper(r) == Chdirs(r)[1]

\* The directory in which the caller's code runs.
Cwd(r) == Chdirs(r)[Len(Chdirs(r))]

\* -------------------------------------------------------------- actions
\* POST /execute up to the call of execute_python_code. The handler has no
\* await: it holds the event loop until it returns.
ExecuteCode(r) ==
    /\ UNCHANGED <<sttVars, ttsVars>>
    /\ running = 0 /\ pc[r] = "idle"
    /\ \E t \in TimeoutInputs :
         /\ req' = [req EXCEPT ![r] = [ep |-> "execute", timeout |-> t,
                                       deps |-> FALSE, uploads |-> 0]]
         /\ loc' = [loc EXCEPT ![r] = [NoLoc EXCEPT !.timeout = ClampTimeout("execute", t)]]
    /\ running' = r
    /\ pc' = [pc EXCEPT ![r] = "mkdir"]
    /\ UNCHANGED <<res, child, resp, dirs, files, created, faults, stages>>

\* POST /execute-advanced up to the call of execute_python_code.
ExecuteAdvanced(r) ==
    /\ UNCHANGED <<sttVars, ttsVars>>
    /\ running = 0 /\ pc[r] = "idle"
    /\ \E t \in TimeoutInputs, d \in BOOLEAN :
         /\ req' = [req EXCEPT ![r] = [ep |-> "advanced", timeout |-> t,
                                       deps |-> d, uploads |-> 0]]
         /\ loc' = [loc EXCEPT ![r] = [NoLoc EXCEPT !.timeout = ClampTimeout("advanced", t)]]
    /\ running' = r
    /\ pc' = [pc EXCEPT ![r] = "mkdir"]
    /\ UNCHANGED <<res, child, resp, dirs, files, created, faults, stages>>

\* POST /execute-with-files up to its first await: the upload directory is
\* made outside the try block, then file.read() gives the loop away. The
\* timeout and the length of the upload list are drawn where the handler
\* first reads them.
ExecuteWithFiles(r) ==
    /\ UNCHANGED <<sttVars, ttsVars>>
    /\ running = 0 /\ pc[r] = "idle"
    /\ req' = [req EXCEPT ![r] = [ep |-> "files", timeout |-> NoneT,
                                  deps |-> FALSE, uploads |-> 0]]
    /\ \E id \in UuidChoices, ok \in BOOLEAN :
         /\ SysCall(ok)
         /\ IF ok
            THEN /\ dirs' = dirs \cup {DirNode(<<id>>, "")}
                 /\ created' = [created EXCEPT ![r] = {DirNode(<<id>>, "")} \ dirs]
                 /\ loc' = [loc EXCEPT ![r] = [NoLoc EXCEPT !.outer = id]]
                 /\ pc' = [pc EXCEPT ![r] = "staging"]
                 /\ running' = 0
                 /\ resp' = resp
            ELSE /\ loc' = [loc EXCEPT ![r] = [NoLoc EXCEPT !.exc = "OSError"]]
                 /\ resp' = [resp EXCEPT ![r] = ServerError]
                 /\ pc' = [pc EXCEPT ![r] = "responded"]
                 /\ running' = r
                 /\ UNCHANGED <<dirs, created>>
    /\ UNCHANGED <<res, child, files, stages>>

\* One turn of the upload loop, from the return of await file.read() to the
\* next await; after the last file the handler keeps the loop and clamps
\* the timeout.
StageFile(r) ==
    /\ UNCHANGED <<sttVars, ttsVars>>
    /\ running = 0 /\ pc[r] = "staging"
    /\ \E name \in UploadNames, ok \in BOOLEAN, last \in BOOLEAN, n \in TimeoutValues :
         LET d == <<loc[r].outer>>
             f == UploadTarget(d, name, FileSize(name))
         IN /\ SysCall(ok)
            /\ req[r].uploads + 1 = MaxUploads => last
            /\ IF ok /\ DirNode(d, "") \in dirs
               THEN /\ files' = {x \in files : ~(x.path = f.path /\ x.sub = "" /\ x.name = f.name)}
                                 \cup ({f} \ {x \in {f} : x.path = Outside})
                    /\ IF last
                       THEN /\ req' = [req EXCEPT ![r].uploads = @ + 1,
                                                  ![r].timeout = SomeT(n)]
                            /\ loc' = [loc EXCEPT ![r].timeout = ClampTimeout("files", SomeT(n)),
                                                  ![r].staged = @ \cup {f.path}]
                            /\ pc' = [pc EXCEPT ![r] = "mkdir"]
                            /\ running' = r
                       ELSE /\ req' = [req EXCEPT ![r].uploads = @ + 1]
                            /\ loc' = [loc EXCEPT ![r].staged = @ \cup {f.path}]
                            /\ UNCHANGED <<pc, running>>
               ELSE /\ loc' = [loc EXCEPT ![r].exc = "OSError"]
                    /\ pc' = [pc EXCEPT ![r] = "files_finally"]
                    /\ running' = r
                    /\ UNCHANGED <<files, req>>
    /\ Stage(r, "stage_file")
    /\ UNCHANGED <<res, child, resp, dirs, created>>

\* execute_python_code up to try: the result dict, the uuid, and the two
\* mkdir calls, either of which may raise.
CreateWorkspace(r) ==
    /\ UNCHANGED <<sttVars, ttsVars>>
    /\ running = r /\ pc[r] = "mkdir"
    /\ \E id \in UuidChoices, fault \in {"none", "exec_dir", "plot_dir"} :
         LET e == WorkDir(r) \o <<id>>
             made == IF fault = "exec_dir" THEN {}
                     ELSE IF fault = "plot_dir" THEN WithParents(e)
                     ELSE WithParents(e) \cup {DirNode(e, "plots")}
         IN /\ SysCall(fault = "none")
            /\ dirs' = dirs \cup made
            /\ created' = [created EXCEPT ![r] = @ \cup (made \ dirs)]
            /\ IF fault = "none"
               THEN /\ loc' = [loc EXCEPT ![r].id = id]
                    /\ pc' = [pc EXCEPT ![r] = IF req[r].deps THEN "install" ELSE "prepare"]
               ELSE /\ loc' = [loc EXCEPT ![r].id = IF fault = "plot_dir" THEN id ELSE 0,
                                          ![r].exc = "OSError"]
                    /\ pc' = [pc EXCEPT ![r] = Propagate(r)]
    /\ res' = [res EXCEPT ![r] = InitResult]
    /\ Stage(r, "create")
    /\ UNCHANGED <<running, req, child, resp, files>>

\* pip install of the dependencies, under its timeout of 60 seconds.
Install(r) ==
    /\ UNCHANGED <<sttVars, ttsVars>>
    /\ running = r /\ pc[r] = "install"
    /\ \E outcome \in {"ok", "nonzero", "timeout"}, log \in InstallLogs :
         /\ res' = [res EXCEPT ![r] = InstallResult(@, outcome, log)]
         /\ loc' = [loc EXCEPT ![r].install = outcome, ![r].ilog = log]
         /\ pc' = [pc EXCEPT ![r] = AfterInstall(outcome)]
    /\ Stage(r, "install")
    /\ UNCHANGED <<running, req, child, resp, dirs, files, created, faults>>

\* create_wrapper_code and code_file.write_text.
Prepare(r) ==
    /\ UNCHANGED <<sttVars, ttsVars>>
    /\ running = r /\ pc[r] = "prepare"
    /\ \E ok \in BOOLEAN :
         /\ SysCall(ok)
         /\ IF ok /\ DirNode(ExecDir(r), "") \in dirs
            THEN /\ files' = files \cup {FileNode(ExecDir(r), "", ScriptName, FileSize(ScriptName))}
                 /\ pc' = [pc EXCEPT ![r] = "run"]
                 /\ loc' = loc
            ELSE /\ loc' = [loc EXCEPT ![r].exc = "OSError"]
                 /\ pc' = [pc EXCEPT ![r] = "finally"]
                 /\ files' = files
    /\ Stage(r, "write_script")
    /\ UNCHANGED <<running, req, res, child, resp, dirs, created>>

\* subprocess.run of script.py: the child writes its output and its files,
\* and exits or is killed at the deadline. A deadline that is not in the
\* future always expires. At the deadline subprocess.run kills and reaps
\* the child it started, and nothing else: a process the child started may
\* still be running when subprocess.run returns or raises.
Run(r) ==
    /\ UNCHANGED <<sttVars, ttsVars>>
    /\ running = r /\ pc[r] = "run"
    /\ \E outcome \in {"exit0", "exit1", "timeout"}, b \in ChildrenFor(req[r].ep, req[r].timeout, req[r].deps, req[r].uploads),
          orphan \in BOOLEAN :
         LET out == b.out \o ShowLines(b.nshow)
             err == b.err
             nshow == b.nshow
             direct == b.direct
             rr == RunResult(res[r], loc[r].timeout, outcome, out, err)
             shown == { FileNode(ExecDir(r), "", PlotName(k), FileSize(PlotName(k))) :
                          k \in 1..nshow }
             saved == { FileNode(Cwd(r), "", n, FileSize(n)) : n \in direct }
         IN /\ loc[r].timeout <= 0 => outcome = "timeout"
            /\ orphan => b.spawns
            /\ files' = files \cup shown \cup saved
            /\ child' = [child EXCEPT ![r] =
                            [outcome |-> outcome, out |-> out, err |-> err,
                             cwd |-> Cwd(r), wrote |-> shown \cup saved,
                             alive |-> IF orphan THEN {"grandchild"} ELSE {}]]
            /\ res' = [res EXCEPT ![r] = rr.result]
            /\ loc' = [loc EXCEPT ![r].exc = IF rr.raised THEN "IndexError" ELSE @]
            /\ pc' = [pc EXCEPT ![r] = AfterRun(rr.raised, outcome)]
    /\ Stage(r, "spawn")
    /\ UNCHANGED <<running, req, resp, dirs, created, faults>>

\* The plots of plots/ and of exec_dir, the marker lines, and the other
\* files of exec_dir; a directory is listed in any order. glob and iterdir
\* stand outside the per-file try blocks: a listing that fails raises, a
\* file that cannot be read is logged and left out. found and unread
\* record what the workspace held and which file could not be read.
Collect(r) ==
    /\ UNCHANGED <<sttVars, ttsVars>>
    /\ running = r /\ pc[r] = "collect"
    /\ \E ok \in BOOLEAN :
         /\ IF ok
            THEN LET e == ExecDir(r)
                     inPlots == { f \in files : f.path = e /\ f.sub = "plots" /\ MatchesPng(f.name) }
                     inExec == { f \in files : f.path = e /\ f.sub = "" /\ MatchesPng(f.name) }
                     others == { f \in files : f.path = e /\ f.sub = "" /\ Collectable(f.name) }
                     listed == inPlots \cup inExec \cup others
                 IN \E bad \in {{}} \cup { {f} : f \in listed } :
                      /\ SysCall(bad = {})
                      /\ \E o1 \in Orders(inPlots), o2 \in Orders(inExec), o3 \in Orders(others) :
                           res' = [res EXCEPT ![r].plots = PlotsOf(Readable(o1 \o o2, bad)),
                                              ![r].stdout = StripMarkers(@),
                                              ![r].files = FilesOf(Readable(o3, bad))]
                      /\ loc' = [loc EXCEPT ![r].found = { f \in files : f.path = e },
                                             ![r].unread = bad]
            ELSE /\ SysCall(FALSE)
                 /\ loc' = [loc EXCEPT ![r].exc = "OSError"]
                 /\ res' = res
    /\ pc' = [pc EXCEPT ![r] = "finally"]
    /\ Stage(r, "collect")
    /\ UNCHANGED <<running, req, child, resp, dirs, files, created>>

\* finally: shutil.rmtree(exec_dir), whose failure is logged; then the
\* result is returned or the pending exception goes on.
Finally(r) ==
    /\ UNCHANGED <<sttVars, ttsVars>>
    /\ running = r /\ pc[r] = "finally"
    /\ \E ok \in BOOLEAN :
         /\ SysCall(ok)
         /\ IF ok
            THEN /\ dirs' = AfterRmTree(dirs, ExecDir(r))
                 /\ files' = AfterRmTree(files, ExecDir(r))
                 /\ loc' = loc
            ELSE /\ loc' = [loc EXCEPT ![r].rmFailed = TRUE, ![r].exc = RmTreeFailure(@)]
                 /\ UNCHANGED <<dirs, files>>
    /\ pc' = [pc EXCEPT ![r] = IF loc'[r].exc # "" THEN Propagate(r) ELSE "respond"]
    /\ Stage(r, "rmtree")
    /\ UNCHANGED <<running, req, res, child, resp, created>>

\* The endpoint builds its response from the result; an exception that
\* reached /execute or /execute-advanced leaves the handler.
Respond(r) ==
    /\ UNCHANGED <<sttVars, ttsVars>>
    /\ running = r /\ pc[r] = "respond"
    /\ IF loc[r].exc # ""
       THEN /\ resp' = [resp EXCEPT ![r] = ServerError]
            /\ pc' = [pc EXCEPT ![r] = "responded"]
       ELSE /\ resp' = [resp EXCEPT ![r] = MakeResponse(req[r].ep, res[r])]
            /\ pc' = [pc EXCEPT ![r] = IF req[r].ep = "files" THEN "files_finally"
                                       ELSE "responded"]
    /\ UNCHANGED <<running, req, loc, res, child, dirs, files, created, faults, stages>>

\* finally of execute_with_files: shutil.rmtree(exec_dir), any failure
\* passed over.
FilesFinally(r) ==
    /\ UNCHANGED <<sttVars, ttsVars>>
    /\ running = r /\ pc[r] = "files_finally"
    /\ \E ok \in BOOLEAN :
         /\ SysCall(ok)
         /\ IF ok
            THEN /\ dirs' = AfterRmTree(dirs, WorkDir(r))
                 /\ files' = AfterRmTree(files, WorkDir(r))
                 /\ loc' = loc
            ELSE /\ loc' = [loc EXCEPT ![r].rmFailed = TRUE, ![r].exc = RmTreeFailure(@)]
                 /\ UNCHANGED <<dirs, files>>
    /\ resp' = [resp EXCEPT ![r] = IF loc'[r].exc # "" THEN ServerError ELSE @]
    /\ pc' = [pc EXCEPT ![r] = "responded"]
    /\ Stage(r, "rmtree_outer")
    /\ UNCHANGED <<running, req, res, child, created>>

\* The handler has returned: the response is sent, the loop is free and
\* the handler's locals are gone.
Deliver(r) ==
    /\ UNCHANGED <<sttVars, ttsVars>>
    /\ running = r /\ pc[r] = "responded"
    /\ running' = 0
    /\ pc' = [pc EXCEPT ![r] = "done"]
    /\ req' = [req EXCEPT ![r] = NoReq]
    /\ loc' = [loc EXCEPT ![r] = NoLoc]
    /\ res' = [res EXCEPT ![r] = InitResult]
    /\ child' = [child EXCEPT ![r] = NoChild]
    /\ resp' = [resp EXCEPT ![r] = NoResponse]
    /\ created' = [created EXCEPT ![r] = {}]
    /\ stages' = [stages EXCEPT ![r] = <<>>]
    /\ UNCHANGED <<dirs, files, faults>>

\* The handler has returned and the server takes the next request.
Recycle(r) ==
    /\ UNCHANGED <<sttVars, ttsVars>>
    /\ running = r /\ pc[r] = "responded"
    /\ running' = 0
    /\ pc' = [pc EXCEPT ![r] = "idle"]
    /\ req' = [req EXCEPT ![r] = NoReq]
    /\ loc' = [loc EXCEPT ![r] = NoLoc]
    /\ res' = [res EXCEPT ![r] = InitResult]
    /\ child' = [child EXCEPT ![r] = NoChild]
    /\ resp' = [resp EXCEPT ![r] = NoResponse]
    /\ created' = [created EXCEPT ![r] = {}]
    /\ stages' = [stages EXCEPT ![r] = <<>>]
    /\ UNCHANGED <<dirs, files, faults>>

\* NumReq requests, each served once, overlapping where a handler awaits.
Next ==
    \E r \in Req :
        \/ ExecuteCode(r)
        \/ ExecuteAdvanced(r)
        \/ ExecuteWithFiles(r)
        \/ StageFile(r)
        \/ CreateWorkspace(r)
        \/ Install(r)
        \/ Prepare(r)
        \/ Run(r)
        \/ Collect(r)
        \/ Finally(r)
        \/ Respond(r)
        \/ FilesFinally(r)
        \/ Deliver(r)

Spec == Init /\ [][Next]_vars

\* One request after the other, without end: every request runs on what
\* the earlier ones left in the work directory.
NextSerial ==
    \/ ExecuteCode(1)
    \/ ExecuteAdvanced(1)
    \/ ExecuteWithFiles(1)
    \/ StageFile(1)
    \/ CreateWorkspace(1)
    \/ Install(1)
    \/ Prepare(1)
    \/ Run(1)
    \/ Collect(1)
    \/ Finally(1)
    \/ Respond(1)
    \/ FilesFinally(1)
    \/ Recycle(1)

SpecSerial == Init /\ [][NextSerial]_vars

\* The steps of a handler that has been entered. The event loop runs a
\* handler until it awaits or returns, file.read() of a parsed upload
\* returns, and both subprocess.run calls carry a timeout.
Handler(r) ==
    \/ StageFile(r)
    \/ CreateWorkspace(r)
    \/ Install(r)
    \/ Prepare(r)
    \/ Run(r)
    \/ Collect(r)
    \/ Finally(r)
    \/ Respond(r)
    \/ FilesFinally(r)

\* SpecSerial with a handler that, once entered, goes on.
FairSerial == SpecSerial /\ WF_vars(Handler(1))

\* What of a child's doings is the same when the same code does the same
\* again: how it ended, its output and the names of the files it wrote.
Doings(c) ==
    [outcome |-> c.outcome, out |-> c.out, err |-> c.err,
     names |-> { f.name : f \in c.wrote }, alive |-> c.alive]

\* POST /execute-advanced with the code alone: no timeout, no dependency.
ExecuteAgain(r) ==
    /\ ExecuteAdvanced(r)
    /\ req'[r].timeout = NoneT /\ ~req'[r].deps

\* The run step of a request whose code does what it did in the request
\* before.
RunAgain(r) ==
    /\ Run(r)
    /\ \A o \in Req \ {r} :
           child[o].outcome # "none" => Doings(child'[r]) = Doings(child[o])

\* The handler has returned; the response stays with the client.
Return(r) ==
    /\ UNCHANGED <<sttVars, ttsVars>>
    /\ running = r /\ pc[r] = "responded"
    /\ running' = 0
    /\ pc' = [pc EXCEPT ![r] = "returned"]
    /\ UNCHANGED <<req, loc, res, child, resp, dirs, files, created, faults, stages>>

\* The same code sent NumReq times to /execute-advanced, one request after
\* the other, the child doing the same each time.
NextTwice ==
    \E r \in Req :
        \/ ExecuteAgain(r)
        \/ CreateWorkspace(r)
        \/ Prepare(r)
        \/ RunAgain(r)
        \/ Collect(r)
        \/ Finally(r)
        \/ Respond(r)
        \/ Return(r)

SpecTwice == Init /\ [][NextTwice]_vars


\* ------------------------------------------------ faster-whisper-service
\* The wall clock goes on by a second.
Tick ==
    /\ now < MaxTime
    /\ now' = now + 1
    /\ UNCHANGED <<model_instance, current_model_name, local, tpc, treq, detached,
                   uploads, tresp, sttFaults>>
    /\ UNCHANGED <<vars, ttsVars>>

\* file.filename of an audio upload, in pieces: "a.mp3" and "a.mp3.wav".
AudioNames == { <<"a.mp3">>, <<"a.mp3", ".wav">> }

\* UPLOADS_DIR / f"{timestamp}_{file.filename}", in pieces.
TempPath(stamp, filename) == <<stamp>> \o filename

\* UPLOADS_DIR / f"{temp_filename}.wav"
WavPath(stamp, filename) == TempPath(stamp, filename) \o <<".wav">>

temp_path(q) == TempPath(treq[q].stamp, treq[q].filename)
wav_path(q) == WavPath(treq[q].stamp, treq[q].filename)

\* A directory after a file was written (created or replaced) at a path,
\* and after the files at some paths were unlinked.
Put(disk, p, d) == { e \in disk : e.path # p } \cup { [path |-> p, data |-> d] }
Unlink(disk, P) == { e \in disk : e.path \notin P }
Exists(disk, p) == \E e \in disk : e.path = p
DataAt(disk, p) == (CHOOSE e \in disk : e.path = p).data

\* get_model(m): [raised, instance, name, local, ret]. A cache hit returns
\* the instance; otherwise WhisperModel(...) is assigned to _model_instance
\* (fault "load": it raises, nothing is assigned), from MODELS_DIR/<m> when
\* that exists and else by download, after which model_path.exists(), the
\* glob and (found) the symlink follow, inside the same try block (fault
\* "after": one of them raises); _current_model_name is assigned last.
GetModel(m, fault, found) ==
    IF model_instance # NoModel /\ current_model_name = m
    THEN [raised |-> FALSE, instance |-> model_instance, name |-> current_model_name,
          local |-> local, ret |-> model_instance]
    ELSE IF fault = "load"
    THEN [raised |-> TRUE, instance |-> model_instance, name |-> current_model_name,
          local |-> local, ret |-> NoModel]
    ELSE IF m \in local
    THEN [raised |-> FALSE, instance |-> m, name |-> m, local |-> local, ret |-> m]
    ELSE IF fault = "after"
    THEN [raised |-> TRUE, instance |-> m, name |-> current_model_name,
          local |-> local, ret |-> NoModel]
    ELSE [raised |-> FALSE, instance |-> m, name |-> m,
          local |-> IF found THEN local \cup {m} ELSE local, ret |-> m]

\* POST /transcribe up to its first await: the model name is checked, the
\* paths are built from the clock and the file name, and open(temp_path,
\* "wb") creates the file or empties the one that is there.
Transcribe(q) ==
    /\ tpc[q] = "idle"
    /\ \E filename \in AudioNames, m \in ModelInputs :
         IF m \notin AVAILABLE_MODELS
         THEN /\ tresp' = [tresp EXCEPT ![q] = [NoTResp EXCEPT !.status = 400,
                                                               !.detail = "Invalid model"]]
              /\ treq' = [treq EXCEPT ![q] = NoTReq]
              /\ UNCHANGED <<tpc, uploads>>
         ELSE /\ treq' = [treq EXCEPT ![q] = [filename |-> filename, model |-> m,
                                               stamp |-> now, rc |-> 0]]
              /\ uploads' = Put(uploads, TempPath(now, filename), 0)
              /\ tpc' = [tpc EXCEPT ![q] = "reading"]
              /\ tresp' = [tresp EXCEPT ![q] = NoTResp]
    /\ detached' = [detached EXCEPT ![q] = FALSE]
    /\ UNCHANGED <<now, model_instance, current_model_name, local, sttFaults>>
    /\ UNCHANGED <<vars, ttsVars>>

\* file.read() has returned: f.write(content) into the file held open, and
\* ffmpeg is started.
SaveUpload(q) ==
    /\ tpc[q] = "reading"
    /\ uploads' = IF detached[q] THEN uploads ELSE Put(uploads, temp_path(q), q)
    /\ tpc' = [tpc EXCEPT ![q] = "ffmpeg"]
    /\ UNCHANGED <<now, model_instance, current_model_name, local, treq, detached,
                   tresp, sttFaults>>
    /\ UNCHANGED <<vars, ttsVars>>

\* ffmpeg -i temp_path ... -y wav_path runs and exits: with an input that
\* is missing or empty it fails, otherwise it may write the converted
\* audio over whatever is at wav_path.
Ffmpeg(q) ==
    /\ tpc[q] = "ffmpeg"
    /\ \E rc \in {0, 1} :
         /\ (~Exists(uploads, temp_path(q)) \/ DataAt(uploads, temp_path(q)) = 0) => rc = 1
         /\ treq' = [treq EXCEPT ![q].rc = rc]
         /\ uploads' = IF rc = 0
                       THEN Put(uploads, wav_path(q), DataAt(uploads, temp_path(q)))
                       ELSE uploads
    /\ tpc' = [tpc EXCEPT ![q] = "converted"]
    /\ UNCHANGED <<now, model_instance, current_model_name, local, detached, tresp,
                   sttFaults>>
    /\ UNCHANGED <<vars, ttsVars>>

\* process.communicate() has returned: the exit code and the WAV file are
\* checked, get_model and the transcription run, and the finally block
\* unlinks temp_path and wav_path where they exist. No await stands in
\* between.
Finish(q) ==
    /\ tpc[q] = "converted"
    /\ \E fault \in {"none", "load", "after"}, found \in BOOLEAN :
         LET g == GetModel(treq[q].model, fault, found)
             called == treq[q].rc = 0 /\ Exists(uploads, wav_path(q))
         IN /\ fault # "none" => (called /\ sttFaults < MaxFaults)
            /\ found => (called /\ fault = "none")
            /\ sttFaults' = IF fault # "none" THEN sttFaults + 1 ELSE sttFaults
            /\ IF called
               THEN /\ model_instance' = g.instance
                    /\ current_model_name' = g.name
                    /\ local' = g.local
               ELSE UNCHANGED <<model_instance, current_model_name, local>>
            /\ tresp' = [tresp EXCEPT ![q] =
                 IF treq[q].rc # 0
                 THEN [NoTResp EXCEPT !.status = 500,
                                      !.detail = "Failed to process audio format"]
                 ELSE IF ~Exists(uploads, wav_path(q))
                 THEN [NoTResp EXCEPT !.status = 500,
                                      !.detail = "FFmpeg produced empty WAV file"]
                 ELSE IF g.raised
                 THEN [NoTResp EXCEPT !.status = 500, !.detail = "Transcription failed"]
                 ELSE [status |-> 200, detail |-> "", heard |-> DataAt(uploads, wav_path(q)),
                       model |-> g.ret]]
    /\ uploads' = Unlink(uploads, {temp_path(q), wav_path(q)})
    /\ detached' = [o \in Req |->
                      IF o # q /\ tpc[o] = "reading"
                           /\ temp_path(o) \in {temp_path(q), wav_path(q)}
                      THEN TRUE ELSE detached[o]]
    /\ tpc' = [tpc EXCEPT ![q] = "idle"]
    /\ UNCHANGED <<now, treq>>
    /\ UNCHANGED <<vars, ttsVars>>

\* The speech-to-text service: requests that overlap at their awaits.
NextWhisper ==
    \/ Tick
    \/ \E q \in Req :
        \/ Transcribe(q)
        \/ SaveUpload(q)
        \/ Ffmpeg(q)
        \/ Finish(q)

SpecWhisper == Init /\ [][NextWhisper]_sttVars

\* --------------------------------------------------- pocket-tts-service
\* file.filename of a voice upload, in pieces that no "custom_" straddles.
VoiceNames ==
    { <<"voice", ".wav">>, <<"custom_", "voice", ".wav">>, <<"voice", ".WAV">>,
      <<"voice", ".txt">> }

\* os.path.splitext(file.filename)[1].lower() in allowed_extensions
AllowedExtension(filename) ==
    LET ext == filename[Len(filename)]
    IN (IF ext = ".WAV" THEN ".wav" ELSE ext) \in {".wav", ".mp3", ".flac", ".m4a"}

\* f"{datetime.now().strftime('%Y%m%d_%H%M%S')}_{file.filename}"
SafeFilename(stamp, filename) == <<ToString(stamp), "_">> \o filename

\* f"custom_{safe_filename}"
VoiceId(safe_filename) == <<"custom_">> \o safe_filename

\* voice_id.startswith("custom_")
StartsWithCustom(voice_id) == voice_id # <<>> /\ voice_id[1] = "custom_"

\* voice_id.replace("custom_", ""): every occurrence is taken out.
RemoveCustom(voice_id) ==
    LET Kept(piece) == piece # "custom_"
    IN SelectSeq(voice_id, Kept)

\* An id that no upload returned: a built-in voice's.
BuiltIn == <<"alba">>

\* The file an upload stored under an id it returned.
StoredFor(voice_id) == { p.file : p \in { x \in issued : x.id = voice_id } }

\* POST /voices/upload: the extension and the size are checked, the file is
\* written under the time stamp and the client's file name, and the id is
\* returned.
UploadVoice ==
    /\ \E filename \in VoiceNames, big \in BOOLEAN, ok \in BOOLEAN :
         LET safe_filename == SafeFilename(now, filename)
         IN IF ~AllowedExtension(filename) \/ big
            THEN /\ lastCall' = [NoLast EXCEPT !.op = "upload", !.status = 400]
                 /\ UNCHANGED <<voices, issued>>
            ELSE IF ~ok
            THEN /\ lastCall' = [NoLast EXCEPT !.op = "upload", !.status = 500]
                 /\ UNCHANGED <<voices, issued>>
            ELSE /\ voices' = voices \cup {safe_filename}
                 /\ issued' = issued \cup { [id |-> VoiceId(safe_filename),
                                             file |-> safe_filename] }
                 /\ lastCall' = [op |-> "upload", status |-> 200,
                                 id |-> VoiceId(safe_filename), file |-> safe_filename,
                                 stored |-> TRUE]
    /\ UNCHANGED <<vars, sttVars>>

\* DELETE /voices/{voice_id}. stored: the file an upload stored under this
\* id was there when the request came.
DeleteVoice ==
    /\ \E voice_id \in { p.id : p \in issued } \cup {BuiltIn}, ok \in BOOLEAN :
         LET custom_voice_filename == RemoveCustom(voice_id)
             stored == StoredFor(voice_id) \cap voices # {}
             status == IF ~StartsWithCustom(voice_id) THEN 400
                       ELSE IF custom_voice_filename \notin voices THEN 404
                       ELSE IF ok THEN 200 ELSE 500
         IN /\ voices' = IF status = 200 THEN voices \ {custom_voice_filename} ELSE voices
            /\ lastCall' = [op |-> "delete", status |-> status, id |-> voice_id,
                            file |-> custom_voice_filename, stored |-> stored]
    /\ UNCHANGED issued
    /\ UNCHANGED <<vars, sttVars>>

\* POST /tts: with custom_voice_id the file is looked up as the delete
\* handler does (without the test of the prefix), otherwise a built-in
\* voice is used; model loading and generation may fail.
TextToSpeech ==
    /\ \E voice_id \in { p.id : p \in issued } \cup {<<>>}, ok \in BOOLEAN :
         LET custom_voice_filename == RemoveCustom(voice_id)
             stored == StoredFor(voice_id) \cap voices # {}
             status == IF ~ok THEN 500
                       ELSE IF voice_id # <<>> /\ custom_voice_filename \notin voices THEN 404
                       ELSE 200
         IN lastCall' = [op |-> "tts", status |-> status, id |-> voice_id,
                         file |-> IF voice_id # <<>> THEN custom_voice_filename ELSE <<>>,
                         stored |-> stored]
    /\ UNCHANGED <<voices, issued>>
    /\ UNCHANGED <<vars, sttVars>>

\* The text-to-speech service: its voice requests, one after the other.
NextVoices ==
    \/ Tick
    \/ UploadVoice
    \/ DeleteVoice
    \/ TextToSpeech

SpecVoices == Init /\ [][NextVoices]_<<now, ttsVars>>

\* ---------------------------------------------------------------- claims
Responded(r) == resp[r].kind = "response"
TimedOut(r) == child[r].outcome = "timeout"
InstallFailed(r) == loc[r].install \in {"nonzero", "timeout"}
Lines(t) == SplitLines(t)
HasMarkerLine(t) == \E i \in 1..Len(Lines(t)) : StartsWithMarker(Lines(t)[i])
InFlight(r) == pc[r] \notin {"idle", "done"}
\* The workspace directories a request has chosen so far.
Workspaces(r) ==
    (IF loc[r].outer # 0 THEN {<<loc[r].outer>>} ELSE {})
    \cup (IF loc[r].id # 0 THEN {ExecDir(r)} ELSE {})

\* The request has gone through stage s.
Reached(r, s) == \E i \in 1..Len(stages[r]) : stages[r][i] = s

\* C1: when a request ends, every directory it created under the work root
\* has been removed (the removal itself not having failed), on every exit
\* path, an exception in the directory setup included.
C1_WorkspaceRemovedAtEnd ==
    \A r \in Req :
        (pc[r] = "responded" /\ ~loc[r].rmFailed) => created[r] \cap dirs = {}

\* C2: in every response the success flag is true exactly when the error
\* field is null.
C2_SuccessIffNoError ==
    \A r \in Req : Responded(r) => (resp[r].success <=> resp[r].error = NoError)

\* C2 witness: a response of a failed request whose stderr is empty.
C2_Witness ==
    \E r \in Req : /\ Responded(r) /\ ~resp[r].success
                   /\ resp[r].error # NoError /\ resp[r].stderr = <<>>

\* C3: no two requests in flight at the same time use the same workspace
\* directory.
C3_NoSharedWorkspace ==
    \A r1, r2 \in Req :
        (r1 # r2 /\ InFlight(r1) /\ InFlight(r2))
            => Workspaces(r1) \cap Workspaces(r2) = {}

\* C4: the returned stdout and the returned stderr are each at most
\* MAX_OUTPUT_SIZE bytes long.
C4_OutputWithinCapBytes ==
    \A r \in Req :
        Responded(r) => /\ ByteLen(resp[r].stdout) <= MAX_OUTPUT_SIZE
                        /\ ByteLen(resp[r].stderr) <= MAX_OUTPUT_SIZE

\* C5: no line of the returned stdout begins with [PLOT_SAVED], also when
\* the captured stdout was truncated at the cap before the markers were
\* stripped.
C5_NoMarkerLineReturned ==
    \A r \in Req : Responded(r) => ~HasMarkerLine(resp[r].stdout)

\* C5 witness: a response to a run whose stdout was over the cap and, once
\* truncated, still held a marker line.
C5_Witness ==
    \E r \in Req : /\ Responded(r) /\ child[r].outcome = "exit0"
                   /\ CharLen(child[r].out) > MAX_OUTPUT_SIZE
                   /\ HasMarkerLine(CapOutput(child[r].out))
                   /\ resp[r].stdout # <<>>

\* C6: for every integer timeout the caller supplies, the timeout passed to
\* the wait on the child equals min(requested, EXECUTION_TIMEOUT).
C6_TimeoutIsMin ==
    \A r \in Req :
        (child[r].outcome # "none" /\ req[r].timeout.some)
            => loc[r].timeout = Min(req[r].timeout.v, EXECUTION_TIMEOUT)

\* C7: when the child has not exited by the deadline, the response has
\* success false and the error "Execution timed out after N seconds" with N
\* the timeout that was enforced.
C7_TimeoutErrorNamesEffective ==
    \A r \in Req :
        (Responded(r) /\ TimedOut(r))
            => /\ ~resp[r].success
               /\ resp[r].error
                    = Err("Execution timed out after N seconds", <<>>, loc[r].timeout)

\* C7 witness: a timed-out response whose N differs from the requested
\* timeout.
C7_Witness ==
    \E r \in Req : /\ Responded(r) /\ TimedOut(r) /\ req[r].timeout.some
                   /\ req[r].timeout.v > EXECUTION_TIMEOUT
                   /\ resp[r].error.n = EXECUTION_TIMEOUT

C9_InstallFailureSkipsExecution ==
    \A r \in Req :
        InstallFailed(r) =>
            /\ stages[r] \in { <<"create", "install">>, <<"create", "install", "rmtree">> }
            /\ child[r] = NoChild
            /\ pc[r] = "responded" =>
                 /\ Responded(r)
                 /\ resp[r].stdout = <<>> /\ resp[r].stderr = <<>>
                 /\ resp[r].plots = <<>> /\ resp[r].files = <<>>
                 /\ stages[r] = <<"create", "install", "rmtree">>
                 /\ ~loc[r].rmFailed => DirNode(ExecDir(r), "") \notin dirs

\* C9 witness: the response to a request whose installer exited non-zero.
C9_Witness ==
    \E r \in Req : /\ pc[r] = "responded" /\ loc[r].install = "nonzero"
                   /\ ~resp[r].success /\ ~loc[r].rmFailed

C11_ExceptionBecomesResult ==
    \A r \in Req :
        (pc[r] = "responded" /\ loc[r].exc # "" /\ Reached(r, "rmtree"))
            => /\ Responded(r)
               /\ ~resp[r].success
               /\ resp[r].error # NoError

\* C12: whenever the child exits non-zero without timing out (and no I/O
\* call fails), a response is returned with success false and the error
\* chosen from the returned stderr: the line before the last one if it
\* contains "Error:", else the stderr itself if not empty, else the generic
\* message; for every stderr, one with "Error:" and no newline included.
C12_NonZeroExitError ==
    \A r \in Req :
        (pc[r] = "responded" /\ child[r].outcome = "exit1" /\ loc[r].exc # "OSError")
            => /\ Responded(r)
               /\ ~resp[r].success
               /\ LET e == resp[r].stderr
                      ls == Lines(e)
                  IN resp[r].error =
                       IF ContainsError(e) THEN Err("stderr line", ls[Len(ls) - 1], 0)
                       ELSE IF e # <<>> THEN Err("stderr", e, 0)
                       ELSE Err("Execution failed with non-zero exit code", <<>>, 0)

C14_NoProcessAtCollect ==
    \A r \in Req : pc[r] = "collect" => child[r].alive = {}

\* The directories in which the service itself has written or deleted for a
\* request: where it staged uploads, where it wrote script.py, and what it
\* removed at teardown.
Touched(r) ==
    loc[r].staged
    \cup (IF Reached(r, "write_script") \/ Reached(r, "rmtree") THEN {ExecDir(r)} ELSE {})
    \cup (IF Reached(r, "rmtree_outer") THEN {WorkDir(r)} ELSE {})

\* The request's own workspace directory.
OwnWorkspace(r) == IF req[r].ep = "files" THEN WorkDir(r) ELSE ExecDir(r)

\* C15: every write and delete the service performs for a request is inside
\* that request's own workspace directory, and never inside the workspace
\* of another request in flight.
C15_OnlyOwnWorkspace ==
    \A r \in Req :
        \A p \in Touched(r) :
            /\ IsPrefix(OwnWorkspace(r), p)
            /\ \A o \in Req \ {r} :
                   InFlight(o) => \A w \in Workspaces(o) : ~IsPrefix(w, p)

\* The number of uploads a request has staged, by its stages.
NumStaged(r) == Cardinality({ i \in 1..Len(stages[r]) : stages[r][i] = "stage_file" })

C17_SameRunSameResponse ==
    \A r1, r2 \in Req :
        (/\ r1 # r2 /\ Responded(r1) /\ Responded(r2)
         /\ req[r1] = req[r2]
         /\ Doings(child[r1]) = Doings(child[r2])
         /\ faults = 0)
            => resp[r1] = resp[r2]

Count(q, x) == Cardinality({ i \in 1..Len(q) : q[i] = x })

\* The error the run step leaves for what the child did.
ErrorOfRun(r) ==
    RunResult(InitResult, loc[r].timeout, child[r].outcome, child[r].out, child[r].err).result.error

\* C21: when one plot or one generated file cannot be read, that item alone
\* is left out: every other plot and file the listings found is returned,
\* nothing else is, and error and success are what the run alone made them.
C21_ReadFailureOmitsOneItem ==
    \A r \in Req :
        (Responded(r) /\ pc[r] = "responded" /\ Reached(r, "collect")) =>
            LET read == loc[r].found \ loc[r].unread
                plots == { f \in read : f.name.ext = ".png" }
                others == { f \in read : f.name.ext = ".csv" }
            IN /\ \A f \in plots : Count(resp[r].plots, PlotOf(f)) = 1
               /\ Len(resp[r].plots) = Cardinality(plots)
               /\ req[r].ep = "advanced" =>
                     /\ \A f \in others : Count(resp[r].files, FileOf(f)) = 1
                     /\ Len(resp[r].files) = Cardinality(others)
               /\ resp[r].error = ErrorOfRun(r)
               /\ resp[r].success = (ErrorOfRun(r) = NoError)

\* C21 witness: a response after a collection that found a plot and a file
\* it could read and one file it could not.
C21_Witness ==
    \E r \in Req : /\ Responded(r) /\ pc[r] = "responded"
                   /\ loc[r].unread # {} /\ loc[r].found \ loc[r].unread # {}
                   /\ resp[r].plots # <<>> /\ resp[r].files # <<>>
                   /\ resp[r].success

C23_EveryPngReturnedOnce ==
    \A r \in Req :
        (Responded(r) /\ pc[r] = "responded" /\ Reached(r, "collect")
           /\ loc[r].unread = {}) =>
            \A f \in child[r].wrote :
                f.name.ext = ".png" => Count(resp[r].plots, PlotOf(f)) = 1

\* The number of lines of a text that begin with the marker.
NumMarkerLines(t) == Cardinality({ i \in 1..Len(Lines(t)) : StartsWithMarker(Lines(t)[i]) })

\* C24: the calls of the intercepted plt.show() in one execution write
\* plot_1.png, plot_2.png, ... (no number left out or used twice) inside the
\* plots/ subdirectory of the workspace, and a child that calls it n >= 1
\* times (printing no marker of its own) prints n marker lines.
C24_ShowWritesIntoPlots ==
    \A r \in Req :
        child[r].outcome # "none" =>
            LET shown == { f \in child[r].wrote : f.name.stem = "plot_" }
                n == Cardinality(shown)
            IN /\ { f.name : f \in shown } = { PlotName(k) : k \in 1..n }
               /\ \A f \in shown : f.path = ExecDir(r) /\ f.sub = "plots"
               /\ n >= 1 => NumMarkerLines(child[r].out) = n

\* C25: a teardown step whose shutil.rmtree fails leaves the result, the
\* response already built and the pending exception (if any) as they were:
\* with no exception pending the handler goes on to return the result it
\* had computed, in execute_python_code and in execute_with_files.
C25_RmTreeFailureChangesNothing ==
    [][\A r \in Req :
          (running = r /\ pc[r] \in {"finally", "files_finally"} /\ faults' = faults + 1) =>
              /\ res'[r] = res[r]
              /\ loc'[r].exc = loc[r].exc
              /\ loc[r].exc = "" =>
                    /\ resp'[r] = resp[r]
                    /\ pc[r] = "finally" => pc'[r] = "respond"
                    /\ pc[r] = "files_finally" =>
                          /\ pc'[r] = "responded"
                          /\ resp'[r] = MakeResponse(req[r].ep, res[r])]_vars

\* C25 witness: a response with a plot, returned by /execute-with-files
\* after a removal failed.
C25_Witness ==
    \E r \in Req : /\ Responded(r) /\ pc[r] = "responded" /\ req[r].ep = "files"
                   /\ loc[r].rmFailed /\ resp[r].plots # <<>>
                   /\ resp[r] = MakeResponse("files", res[r])

\* The place of a stage in the pipeline.
Rank(s) ==
    CASE s = "stage_file" -> 0
      [] s = "create" -> 1
      [] s = "install" -> 2
      [] s = "write_script" -> 3
      [] s = "spawn" -> 4
      [] s = "collect" -> 5
      [] s = "rmtree" -> 6
      [] s = "rmtree_outer" -> 7

\* C19: within one request the stages happen in the order create, (install),
\* prepare, run, collect, destroy: none is entered twice, none before an
\* earlier one, each of install, prepare, run and collect directly after
\* the stage it builds on, and once the workspace has been removed the only
\* thing that may follow is the removal of the upload directory around it.
C19_StagesInOrder ==
    \A r \in Req :
        LET st == stages[r]
        IN /\ \A i \in 1..(Len(st) - 1) :
                  \/ Rank(st[i]) < Rank(st[i + 1])
                  \/ (st[i] = "stage_file" /\ st[i + 1] = "stage_file")
           /\ \A j \in 1..Len(st) :
                  /\ st[j] = "install" => (j > 1 /\ st[j - 1] = "create" /\ req[r].deps)
                  /\ st[j] = "write_script" =>
                        (j > 1 /\ st[j - 1] = (IF req[r].deps THEN "install" ELSE "create"))
                  /\ st[j] = "spawn" => (j > 1 /\ st[j - 1] = "write_script")
                  /\ st[j] = "collect" => (j > 1 /\ st[j - 1] = "spawn")
                  /\ st[j] = "rmtree" => Reached(r, "create")
                  /\ st[j] = "rmtree_outer" => req[r].ep = "files"
           /\ pc[r] \in {"install", "prepare", "run", "collect", "finally"}
                  => ~Reached(r, "rmtree")

\* C19 witness: a request that went through all six stages.
C19_Witness ==
    \E r \in Req :
        /\ pc[r] = "responded"
        /\ stages[r] = <<"create", "install", "write_script", "spawn", "collect", "rmtree">>

\* The request is inside its handler.
InHandler(r) ==
    pc[r] \in {"staging", "mkdir", "install", "prepare", "run", "collect", "finally",
               "respond", "files_finally"}

\* The teardown of the request's workspace has run, or the request never
\* created a directory that is still there.
Destroyed(r) ==
    Reached(r, "rmtree") \/ Reached(r, "rmtree_outer") \/ created[r] \cap dirs = {}

\* C20: every accepted request reaches the destroyed state and returns: a
\* request that has returned has been through the teardown.
C20_ReturnedIsDestroyed ==
    \A r \in Req : pc[r] = "responded" => Destroyed(r)

\* C20, the waits: a request inside its handler eventually returns; it
\* blocks neither in the installer nor in the execution.
C20_EventuallyReturns ==
    \A r \in Req : InHandler(r) ~> (pc[r] = "responded")


\* C26: after any calls of get_model, the cached pair is consistent: a
\* model instance that is there is the one loaded for _current_model_name,
\* so a transcription that asked for model m ran on a model loaded for m.
C26_CachedPairConsistent ==
    /\ model_instance # NoModel => model_instance = current_model_name
    /\ \A q \in Req : tresp[q].status = 200 => tresp[q].model = treq[q].model

\* The two temporary paths of the request in slot q.
TempPaths(q) == {temp_path(q), wav_path(q)}

\* C27: two /transcribe requests in flight at the same time share no
\* temporary path, and when a request has returned, its two temporary files
\* are gone (no other request having used the same paths).
C27_NoSharedTempFile ==
    /\ \A q1, q2 \in Req :
          (q1 # q2 /\ tpc[q1] # "idle" /\ tpc[q2] # "idle") =>
              TempPaths(q1) \cap TempPaths(q2) = {}
    /\ \A q \in Req :
          (/\ tpc[q] = "idle" /\ tresp[q].status \in {200, 500}
           /\ \A o \in Req \ {q} : TempPaths(o) \cap TempPaths(q) = {}) =>
              \A p \in TempPaths(q) : ~Exists(uploads, p)

\* C28: the id returned by an accepted upload leads back to the file that
\* upload stored: the delete and the tts handler look up exactly that file,
\* and a delete with the id of a stored file that is there removes it and
\* succeeds (the removal itself not failing).
C28_IdRoundTrips ==
    /\ \A p \in issued : StartsWithCustom(p.id) /\ RemoveCustom(p.id) = p.file
    /\ (lastCall.op \in {"delete", "tts"} /\ lastCall.stored /\ lastCall.status # 500) =>
          /\ lastCall.status = 200
          /\ lastCall.file \in StoredFor(lastCall.id)
          /\ lastCall.op = "delete" => lastCall.file \notin voices

====
